---- MODULE Spec2Model ----
(***************************************************************************)
(* Model of the generator utility functions of sokol-shdc (namespace       *)
(* shdc::util): check_errors, uniform_size, roundup, the case transforms   *)
(* and replace_C_comment_tokens.                                           *)
(*                                                                         *)
(* A std::string is a sequence of one-character strings, a std::vector is  *)
(* a sequence (index i of the code is index i+1 here), a std::map is a     *)
(* function (or, where it is iterated, the sequence of its values in key   *)
(* order).  An int is a 32-bit two's complement integer.                   *)
(***************************************************************************)
EXTENDS Integers, Sequences, FiniteSets

\* the function called, its arguments, what the call did, and whether it
\* has run
VARIABLES call, args, ret, pc

vars == <<call, args, ret, pc>>

(* ---------------------------------------------------------------- bounds *)

\* longest string handed to the string functions
MaxStrLen == 4

\* largest array_size handed to uniform_size
MaxArraySize == 8

\* largest small val / round_to handed to roundup
MaxVal == 20
MaxRoundTo == 17

\* most body lines of one snippet
MaxSnippetLines == 2

(* ------------------------------------------------------------ characters *)

LowerChars == <<"a","b","c","d","e","f","g","h","i","j","k","l","m",
                "n","o","p","q","r","s","t","u","v","w","x","y","z">>
UpperChars == <<"A","B","C","D","E","F","G","H","I","J","K","L","M",
                "N","O","P","Q","R","S","T","U","V","W","X","Y","Z">>

islower(c) == \E i \in 1..Len(LowerChars) : LowerChars[i] = c
isupper(c) == \E i \in 1..Len(UpperChars) : UpperChars[i] = c

toupper(c) ==
    IF islower(c)
    THEN UpperChars[CHOOSE i \in 1..Len(LowerChars) : LowerChars[i] = c]
    ELSE c

tolower(c) ==
    IF isupper(c)
    THEN LowerChars[CHOOSE i \in 1..Len(UpperChars) : UpperChars[i] = c]
    ELSE c

(* -------------------------------------------------------------- pystring *)

\* does pattern pat occur in s at (1-based) position i
MatchAt(s, pat, i) ==
    /\ i + Len(pat) - 1 <= Len(s)
    /\ SubSeq(s, i, i + Len(pat) - 1) = pat

RECURSIVE pystring_replace_from(_, _, _, _)
pystring_replace_from(s, oldstr, newstr, i) ==
    IF i > Len(s) THEN <<>>
    ELSE IF MatchAt(s, oldstr, i)
         THEN newstr \o pystring_replace_from(s, oldstr, newstr, i + Len(oldstr))
         ELSE <<s[i]>> \o pystring_replace_from(s, oldstr, newstr, i + 1)

\* pystring::replace(str, oldstr, newstr): every non-overlapping occurrence,
\* left to right, the search resuming after the inserted text
pystring_replace(str, oldstr, newstr) ==
    pystring_replace_from(str, oldstr, newstr, 1)

RECURSIVE pystring_split_from(_, _, _, _)
pystring_split_from(str, sep, i, j) ==
    IF i + Len(sep) - 1 > Len(str)
    THEN << SubSeq(str, j, Len(str)) >>
    ELSE IF MatchAt(str, sep, i)
         THEN << SubSeq(str, j, i - 1) >>
              \o pystring_split_from(str, sep, i + Len(sep), i + Len(sep))
         ELSE pystring_split_from(str, sep, i + 1, j)

\* pystring::split(str, result, sep) with a non-empty separator
pystring_split(str, sep) == pystring_split_from(str, sep, 1, 1)

\* pystring::capitalize: first character upper, the rest lower
pystring_capitalize(str) ==
    [i \in 1..Len(str) |-> IF i = 1 THEN toupper(str[i]) ELSE tolower(str[i])]

RECURSIVE pystring_join(_, _)
pystring_join(sep, parts) ==
    IF Len(parts) = 0 THEN <<>>
    ELSE IF Len(parts) = 1 THEN parts[1]
    ELSE parts[1] \o sep \o pystring_join(sep, Tail(parts))

pystring_upper(str) == [i \in 1..Len(str) |-> toupper(str[i])]

(* ------------------------------------------------------- case transforms *)

capitalize_all(splits) == [i \in 1..Len(splits) |-> pystring_capitalize(splits[i])]

to_pascal_case_nocap(str) == pystring_join(<<>>, pystring_split(str, <<"_">>))

to_pascal_case(str) ==
    pystring_join(<<>>, capitalize_all(pystring_split(str, <<"_">>)))

to_ada_case_nosep(str) ==
    pystring_join(<<>>, capitalize_all(pystring_split(str, <<"_">>)))

to_ada_case(str) ==
    pystring_join(<<"_">>, capitalize_all(pystring_split(str, <<"_">>)))

\* res[0] of an empty std::string is the terminator, and tolower(0) = 0
to_camel_case(str) ==
    LET res == to_pascal_case(str)
    IN  IF Len(res) = 0 THEN res
        ELSE [res EXCEPT ![1] = tolower(res[1])]

to_upper_case(str) == pystring_upper(str)

(* -------------------------------------------------------- comment tokens *)

comment_start_old == <<"/", "*">>
comment_start_new == <<"/", "_">>
comment_end_old == <<"*", "/">>
comment_end_new == <<"_", "/">>

replace_C_comment_tokens_start_only(str) ==
    pystring_replace(str, comment_start_old, comment_start_new)

replace_C_comment_tokens_end_as_start(str) ==
    LET s == pystring_replace(str, comment_start_old, comment_start_new)
    IN  pystring_replace(s, comment_end_old, comment_start_new)

replace_C_comment_tokens(str) ==
    LET s == pystring_replace(str, comment_start_old, comment_start_new)
    IN  pystring_replace(s, comment_end_old, comment_end_new)

(* ---------------------------------------------------------- uniform_size *)

\* Uniform::type_t as used by uniform_size
UniformTypes ==
    {"INVALID", "FLOAT", "FLOAT2", "FLOAT3", "FLOAT4",
     "INT", "INT2", "INT3", "INT4", "MAT4"}

uniform_size_array_any(type, array_size) ==
    IF array_size > 1
    THEN CASE type \in {"FLOAT4", "INT4"} -> 16 * array_size
           [] type = "MAT4" -> 64 * array_size
           [] type \in {"FLOAT", "INT"} -> 4 * array_size
           [] type \in {"FLOAT2", "INT2"} -> 8 * array_size
           [] type \in {"FLOAT3", "INT3"} -> 12 * array_size
           [] OTHER -> 0
    ELSE CASE type \in {"FLOAT", "INT"} -> 4
           [] type \in {"FLOAT2", "INT2"} -> 8
           [] type \in {"FLOAT3", "INT3"} -> 12
           [] type \in {"FLOAT4", "INT4"} -> 16
           [] type = "MAT4" -> 64
           [] OTHER -> 0

uniform_size_mat4_as_vec4(type, array_size) ==
    IF array_size > 1
    THEN CASE type \in {"FLOAT4", "INT4", "MAT4"} -> 16 * array_size
           [] OTHER -> 0
    ELSE CASE type \in {"FLOAT", "INT"} -> 4
           [] type \in {"FLOAT2", "INT2"} -> 8
           [] type \in {"FLOAT3", "INT3"} -> 12
           [] type \in {"FLOAT4", "INT4", "MAT4"} -> 16
           [] OTHER -> 0

uniform_size(type, array_size) ==
    IF array_size > 1
    THEN CASE type \in {"FLOAT4", "INT4"} -> 16 * array_size
           [] type = "MAT4" -> 64 * array_size
           [] OTHER -> 0
    ELSE CASE type \in {"FLOAT", "INT"} -> 4
           [] type \in {"FLOAT2", "INT2"} -> 8
           [] type \in {"FLOAT3", "INT3"} -> 12
           [] type \in {"FLOAT4", "INT4"} -> 16
           [] type = "MAT4" -> 64
           [] OTHER -> 0

(* --------------------------------------------------------------- roundup *)

\* an int about which nothing is known: the result of undefined behaviour
\* that did not fault (an out-of-range read returning stale or uninitialised
\* storage, an overflowed addition the optimiser reasoned about as if it had
\* not overflowed).  It stands for every int.
IndeterminateInt == "indeterminate int"

\* the range of int
INT_MAX == 2147483647
INT_MIN == -INT_MAX - 1

\* a & b on two's complement ints: -1 is all ones, x \div 2 is the
\* arithmetic shift right and x % 2 the lowest bit
RECURSIVE BitAnd(_, _)
BitAnd(a, b) ==
    IF a = 0 \/ b = 0 THEN 0
    ELSE IF a = -1 THEN b
    ELSE IF b = -1 THEN a
    ELSE (a % 2) * (b % 2) + 2 * BitAnd(a \div 2, b \div 2)

\* ~a
BitNot(a) == -a - 1

\* val + (round_to - 1) leaves the int range: signed overflow
\* (round_to >= 0 in every call, so round_to - 1 is in range)
roundup_overflows(val, round_to) ==
    /\ round_to - 1 > 0
    /\ val > INT_MAX - (round_to - 1)

\* val + (round_to - 1) as the two's complement addition computes it
wrapping_add(val, k) ==
    IF k > 0 /\ val > INT_MAX - k
    THEN INT_MIN + ((val - INT_MAX) + (k - 1))
    ELSE val + k

roundup_down(val, round_to) ==
    BitAnd(val, BitNot(round_to - 1))

roundup(val, round_to) ==
    BitAnd(wrapping_add(val, round_to - 1), BitNot(round_to - 1))

\* what a call of roundup does when the addition does not overflow, or
\* when an overflowing addition wraps: it returns the rounded value
roundup_returns(val, round_to) ==
    {[kind |-> "return", value |-> roundup(val, round_to)]}

\* a signed overflow in val + (round_to - 1) is undefined behaviour: besides
\* returning the wrapped result, the call may return a value the caller
\* cannot rely on, or trap without returning
roundup_undefined(val, round_to) ==
    IF roundup_overflows(val, round_to)
    THEN {[kind |-> "return", value |-> IndeterminateInt],
          [kind |-> "fault", value |-> IndeterminateInt]}
    ELSE {}

(* ---------------------------------------------------------- check_errors *)

\* error_t(): no error
ErrMsg_none ==
    [valid |-> FALSE, line_index |-> -1,
     msg |-> [slang |-> "", side |-> "", shader |-> "", prog |-> ""]]

\* Input::error(index, msg): error_t(file, line, msg), an error at that line
Input_error(index, msg) ==
    [valid |-> TRUE, line_index |-> index, msg |-> msg]

\* fmt::format("no generated '{}' source for {} shader '{}' in program '{}'")
format_msg(slang, side, shader, prog) ==
    [slang |-> slang, side |-> side, shader |-> shader, prog |-> prog]

RECURSIVE find_source_from(_, _, _)
find_source_from(sources, snippet_index, i) ==
    IF i > Len(sources) THEN -1
    ELSE IF sources[i].snippet_index = snippet_index THEN i - 1
    ELSE find_source_from(sources, snippet_index, i + 1)

\* Spirvcross::find_source_by_snippet_index: position of the source generated
\* for the snippet, -1 when there is none
find_source_by_snippet_index(spirvcross, snippet_index) ==
    find_source_from(spirvcross.sources, snippet_index, 1)

\* lines[0] of a std::vector<int>: the set of outcomes of the read.  On an
\* empty vector the read is out of range: the process may fault, or the read
\* produces an indeterminate int.
vector_first(lines) ==
    IF Len(lines) > 0
    THEN {[fault |-> FALSE, oob |-> FALSE, value |-> lines[1]]}
    ELSE {[fault |-> TRUE, oob |-> TRUE, value |-> IndeterminateInt],
          [fault |-> FALSE, oob |-> TRUE, value |-> IndeterminateInt]}

\* what a call of check_errors may do: return an ErrMsg or fault
Returned(err, oob) == [kind |-> "return", err |-> err, oob |-> oob]
Faulted == [kind |-> "fault", err |-> ErrMsg_none, oob |-> TRUE]

\* return inp.error(inp.snippets[snippet_index].lines[0], msg)
report(inp, snippet_index, msg) ==
    {IF r.fault THEN Faulted
     ELSE Returned(Input_error(r.value, msg), r.oob) :
        r \in vector_first(inp.snippets[snippet_index + 1].lines)}

RECURSIVE check_errors_from(_, _, _, _)
check_errors_from(inp, spirvcross, slang, i) ==
    IF i > Len(inp.programs) THEN {Returned(ErrMsg_none, FALSE)}
    ELSE LET prog == inp.programs[i]
             vs_snippet_index == inp.snippet_map[prog.vs_name]
             fs_snippet_index == inp.snippet_map[prog.fs_name]
             vs_src_index == find_source_by_snippet_index(spirvcross, vs_snippet_index)
             fs_src_index == find_source_by_snippet_index(spirvcross, fs_snippet_index)
         IN  IF vs_src_index < 0
             THEN report(inp, vs_snippet_index,
                         format_msg(slang, "vertex", prog.vs_name, prog.name))
             ELSE IF fs_src_index < 0
             THEN report(inp, vs_snippet_index,
                         format_msg(slang, "fragment", prog.fs_name, prog.name))
             ELSE check_errors_from(inp, spirvcross, slang, i + 1)

\* the set of outcomes of util::check_errors(inp, spirvcross, slang)
check_errors(inp, spirvcross, slang) == check_errors_from(inp, spirvcross, slang, 1)

(* ---------------------------------------------------------------- inputs *)

Strings(alphabet) == UNION {[1..n -> alphabet] : n \in 0..MaxStrLen}

\* identifiers handed to the case transforms
IdentChars == {"a", "Z", "_", "7"}
\* shader source handed to the comment-token rewriter
SourceChars == {"/", "*", "_", "x"}

ArraySizes == 0..MaxArraySize

Vals == (-2..MaxVal) \cup {INT_MAX - k : k \in 0..2}
RoundTos == (0..MaxRoundTo) \cup {2^30}

Slangs == {"glsl330", "hlsl5"}

\* the @vs and @fs snippets of the input file, in declaration order
SnippetDecls ==
    << [type |-> "VS", name |-> "vs0"], [type |-> "FS", name |-> "fs0"],
       [type |-> "VS", name |-> "vs1"], [type |-> "FS", name |-> "fs1"] >>

NumSnippets == Len(SnippetDecls)
VsNames == {SnippetDecls[i].name : i \in {j \in 1..NumSnippets : SnippetDecls[j].type = "VS"}}
FsNames == {SnippetDecls[i].name : i \in {j \in 1..NumSnippets : SnippetDecls[j].type = "FS"}}

\* snippet i occupies its own stretch of the file; the two @program lines follow
FirstLine(i) == (i - 1) * MaxSnippetLines
NumLines == NumSnippets * MaxSnippetLines + 2
ProgNames == <<"p", "q">>
ProgLine(k) == NumSnippets * MaxSnippetLines + (k - 1)

BodyLines(i) == {[k \in 1..n |-> FirstLine(i) + k - 1] : n \in 0..MaxSnippetLines}

Snippets ==
    {[i \in 1..NumSnippets |->
        [type |-> SnippetDecls[i].type, name |-> SnippetDecls[i].name, lines |-> f[i]]] :
        f \in {g \in [1..NumSnippets -> UNION {BodyLines(i) : i \in 1..NumSnippets}] :
                 \A i \in 1..NumSnippets : g[i] \in BodyLines(i)}}

snippet_map_of == [n \in VsNames \cup FsNames |->
                     (CHOOSE i \in 1..NumSnippets : SnippetDecls[i].name = n) - 1]

Programs(k) ==
    {[name |-> ProgNames[k], vs_name |-> v, fs_name |-> f, line_index |-> ProgLine(k)] :
        v \in VsNames, f \in FsNames}

\* Input.programs is a std::map: iterated in key order
ProgramMaps ==
    {<<>>} \cup {<<a>> : a \in Programs(1)} \cup {<<b>> : b \in Programs(2)}
           \cup {<<a, b>> : a \in Programs(1), b \in Programs(2)}

Inputs ==
    {[num_lines |-> NumLines, snippets |-> sn, snippet_map |-> snippet_map_of,
      programs |-> pm] : sn \in Snippets, pm \in ProgramMaps}

RECURSIVE SourcesOf(_, _)
SourcesOf(S, i) ==
    IF i >= NumSnippets THEN <<>>
    ELSE (IF i \in S THEN << [valid |-> TRUE, snippet_index |-> i] >> ELSE <<>>)
         \o SourcesOf(S, i + 1)

\* the sources translated for one dialect: one per translated snippet
Spirvcrosses == {[sources |-> SourcesOf(S, 0)] : S \in SUBSET (0..(NumSnippets - 1))}

(* --------------------------------------------------------- state machine *)

NoRet == [kind |-> "none"]

Calls ==
    {[fn |-> "check_errors", a |-> [inp |-> i, spirvcross |-> sc, slang |-> sl]] :
        i \in Inputs, sc \in Spirvcrosses, sl \in Slangs}
    \cup {[fn |-> "uniform_size", a |-> [type |-> t, array_size |-> n]] :
        t \in UniformTypes, n \in ArraySizes}
    \cup {[fn |-> "roundup", a |-> [val |-> v, round_to |-> n]] :
        v \in Vals, n \in RoundTos}
    \cup {[fn |-> f, a |-> [str |-> x]] :
        f \in {"to_pascal_case", "to_ada_case", "to_camel_case", "to_upper_case"},
        x \in Strings(IdentChars)}
    \cup {[fn |-> "replace_C_comment_tokens", a |-> [str |-> x]] :
        x \in Strings(SourceChars)}

Init ==
    /\ pc = "called"
    /\ ret = NoRet
    /\ \E c \in Calls : call = c.fn /\ args = c.a

Return(fn, outcomes) ==
    /\ pc = "called"
    /\ call = fn
    /\ ret' \in outcomes
    /\ pc' = "returned"
    /\ UNCHANGED <<call, args>>

CheckErrors ==
    /\ call = "check_errors"
    /\ Return("check_errors", check_errors(args.inp, args.spirvcross, args.slang))

UniformSize ==
    /\ call = "uniform_size"
    /\ Return("uniform_size", {uniform_size(args.type, args.array_size)})

Roundup ==
    /\ call = "roundup"
    /\ \/ Return("roundup", roundup_returns(args.val, args.round_to))
       \/ Return("roundup", roundup_undefined(args.val, args.round_to))

ToPascalCase ==
    /\ call = "to_pascal_case"
    /\ Return("to_pascal_case", {to_pascal_case(args.str)})

ToAdaCase ==
    /\ call = "to_ada_case"
    /\ Return("to_ada_case", {to_ada_case(args.str)})

ToCamelCase ==
    /\ call = "to_camel_case"
    /\ Return("to_camel_case", {to_camel_case(args.str)})

ToUpperCase ==
    /\ call = "to_upper_case"
    /\ Return("to_upper_case", {to_upper_case(args.str)})

ReplaceCCommentTokens ==
    /\ call = "replace_C_comment_tokens"
    /\ Return("replace_C_comment_tokens", {replace_C_comment_tokens(args.str)})

Next ==
    \/ CheckErrors
    \/ UniformSize
    \/ Roundup
    \/ ToPascalCase
    \/ ToAdaCase
    \/ ToCamelCase
    \/ ToUpperCase
    \/ ReplaceCCommentTokens

Spec == Init /\ [][Next]_vars

Returned_from(fn) == pc = "returned" /\ call = fn

(* ------------------------------------------------- vocabulary of the claims *)

\* the program of inp named n
ProgramNamed(inp, n) ==
    inp.programs[CHOOSE i \in 1..Len(inp.programs) : inp.programs[i].name = n]

\* the snippet named n has a generated source in spirvcross
HasSource(inp, spirvcross, n) ==
    \E j \in 1..Len(spirvcross.sources) :
        spirvcross.sources[j].snippet_index = inp.snippet_map[n]

AllProgramsHaveSources(inp, spirvcross) ==
    \A i \in 1..Len(inp.programs) :
        /\ HasSource(inp, spirvcross, inp.programs[i].vs_name)
        /\ HasSource(inp, spirvcross, inp.programs[i].fs_name)

IsPowerOfTwo(n) == \E k \in 0..30 : n = 2^k

Contains(s, pat) == \E i \in 1..Len(s) : MatchAt(s, pat, i)

\* '/_' -> '/*', then '_/' -> '*/'
ReverseCommentTokens(s) ==
    pystring_replace(pystring_replace(s, comment_start_new, comment_start_old),
                     comment_end_new, comment_end_old)

UpperFirst(s) == IF Len(s) = 0 THEN s ELSE [s EXCEPT ![1] = toupper(s[1])]

RemoveUnderscores(s) == SelectSeq(s, LAMBDA c : c # "_")

CountUnderscores(s) == Cardinality({i \in 1..Len(s) : s[i] = "_"})

ArrayTypes == {"FLOAT4", "INT4", "MAT4"}

(* ------------------------------------------------------------------ claims *)

\* C1: when check_errors reports a missing vertex or fragment source (and
\* every read it made was in range), the error it returns is located at the
\* declaration line (line_index) of the program it names.
C1_ErrorAtProgramLine ==
    (Returned_from("check_errors") /\ ret.kind = "return" /\ ret.err.valid /\ ~ret.oob)
        => ret.err.line_index = ProgramNamed(args.inp, ret.err.msg.prog).line_index

\* C2: check_errors returns a no-error ErrMsg exactly when every program has
\* a generated source for its vertex and for its fragment snippet, and
\* returns a valid error otherwise.
C2_NoErrorIffAllSources ==
    Returned_from("check_errors")
        => /\ ret.kind = "return"
           /\ ret.err.valid = ~AllProgramsHaveSources(args.inp, args.spirvcross)

\* C3: for val >= 0 and round_to a power of two, with val + round_to - 1 in
\* the int range, roundup(val, round_to) >= val and is a multiple of round_to.
C3_RoundupMultipleNotBelow ==
    (/\ Returned_from("roundup")
     /\ args.val >= 0
     /\ IsPowerOfTwo(args.round_to)
     /\ ~roundup_overflows(args.val, args.round_to))
        => /\ ret.kind = "return"
           /\ ret.value >= args.val
           /\ ret.value % args.round_to = 0

C3_Witness ==
    /\ Returned_from("roundup")
    /\ args.val = 5 /\ args.round_to = 4
    /\ ret = [kind |-> "return", value |-> 8]

\* C4: uniform_size is 4, 8, 12, 16, 64 for a single FLOAT/INT, FLOAT2/INT2,
\* FLOAT3/INT3, FLOAT4/INT4, MAT4, and for array_size > 1 it is
\* 16 * array_size for FLOAT4 and INT4 and 64 * array_size for MAT4.
C4_UniformSizeTable ==
    Returned_from("uniform_size")
        => /\ args.array_size = 1 =>
                /\ args.type \in {"FLOAT", "INT"} => ret = 4
                /\ args.type \in {"FLOAT2", "INT2"} => ret = 8
                /\ args.type \in {"FLOAT3", "INT3"} => ret = 12
                /\ args.type \in {"FLOAT4", "INT4"} => ret = 16
                /\ args.type = "MAT4" => ret = 64
           /\ args.array_size > 1 =>
                /\ args.type \in {"FLOAT4", "INT4"} => ret = 16 * args.array_size
                /\ args.type = "MAT4" => ret = 64 * args.array_size

C4_Witness ==
    /\ Returned_from("uniform_size")
    /\ args.type = "MAT4" /\ args.array_size = 3 /\ ret = 192

\* C5: an array (array_size > 1) of a type other than FLOAT4, INT4 and MAT4
\* gets no usable size: uniform_size answers 0, which is the size of no
\* legal uniform (every legal uniform has a positive size).
C5_IllegalArrayHasNoSize ==
    Returned_from("uniform_size")
        => /\ (args.array_size > 1 /\ args.type \notin ArrayTypes) => ret = 0
           /\ (args.array_size > 1 /\ args.type \in ArrayTypes) => ret > 0
           /\ (args.array_size = 1 /\ args.type # "INVALID") => ret > 0

C5_Witness ==
    /\ Returned_from("uniform_size")
    /\ args.type = "FLOAT3" /\ args.array_size = 2 /\ ret = 0

\* C6 as stated: for every string s, the reverse substitution applied to
\* replace_C_comment_tokens(s) gives back s.
C6_ReverseRestoresAll ==
    Returned_from("replace_C_comment_tokens")
        => ReverseCommentTokens(ret) = args.str

\* C6 amended: for every string s that contains neither '/_' nor '_/', the
\* reverse substitution applied to replace_C_comment_tokens(s) gives back s.
C6_ReverseRestoresDigraphFree ==
    (/\ Returned_from("replace_C_comment_tokens")
     /\ ~Contains(args.str, comment_start_new)
     /\ ~Contains(args.str, comment_end_new))
        => ReverseCommentTokens(ret) = args.str

C6_Witness ==
    /\ Returned_from("replace_C_comment_tokens")
    /\ args.str = <<"/", "*", "*", "/">>
    /\ ret = <<"/", "_", "_", "/">>
    /\ ReverseCommentTokens(ret) = args.str

\* C7: to_pascal_case(x) is to_camel_case(x) with its first character
\* uppercased, for every identifier x.
C7_PascalIsCamelUpperFirst ==
    Returned_from("to_camel_case")
        => to_pascal_case(args.str) = UpperFirst(ret)

C7_Witness ==
    /\ Returned_from("to_camel_case")
    /\ args.str = <<"_", "_", "a", "Z">>
    /\ ret = <<"a", "z">>

\* C8: upper(pascal(x)) is upper(x) with the underscores removed, and
\* to_ada_case(x) has as many underscores as x.
C8_UpperPascalAndAdaUnderscores ==
    /\ Returned_from("to_pascal_case")
        => to_upper_case(ret) = RemoveUnderscores(to_upper_case(args.str))
    /\ Returned_from("to_ada_case")
        => CountUnderscores(ret) = CountUnderscores(args.str)

C8_Witness ==
    /\ Returned_from("to_ada_case")
    /\ args.str = <<"a", "_", "_", "Z">>
    /\ ret = <<"A", "_", "_", "Z">>

\* C9: the result of replace_C_comment_tokens contains neither '/*' nor '*/'.
C9_NoCommentTokensLeft ==
    Returned_from("replace_C_comment_tokens")
        => /\ ~Contains(ret, comment_start_old)
           /\ ~Contains(ret, comment_end_old)

C9_Witness ==
    /\ Returned_from("replace_C_comment_tokens")
    /\ args.str = <<"*", "/", "*">>
    /\ ret = <<"_", "/", "_">>

\* C10: when check_errors reports a missing source it reads the first line
\* of a snippet whose lines vector is not empty, and the line it reports is
\* an index into Input.lines.
C10_NoOutOfRangeRead ==
    (Returned_from("check_errors") /\ ~AllProgramsHaveSources(args.inp, args.spirvcross))
        => /\ ~ret.oob
           /\ ret.kind = "return"
           /\ ret.err.line_index # IndeterminateInt
           /\ ret.err.line_index \in 0..(args.inp.num_lines - 1)

====
